---- MODULE Spec2Model ----
(***************************************************************************)
(* A model of pycfg's control-flow-graph construction (src/pycfg/cfg.py): *)
(* the persistent block stack and its views, the exceptional-target walk, *)
(* the per-opcode successor computation and the single forward pass of    *)
(* CFG.__init__ over a decoded instruction stream.                        *)
(*                                                                         *)
(* A Block object is an entry of the pool `blockstack` (BlockStack.blocks) *)
(* and is referred to by its position in the pool; position 0 is Python's *)
(* None.  A BlockStackView is the position of its last_block.  Block is a *)
(* namedtuple, so == and hashing of blocks are structural: BlockValue.    *)
(***************************************************************************)
EXTENDS Integers, Sequences, FiniteSets, TLC

\* ------------------------------------------------------------------ bounds

\* statements in the body of a generated function
MaxNodes == 4
\* instructions in a free-form jump sequence
RawLen == 4
\* calls made in the block-stack workbench
MaxCalls == 3
\* statements in the body of a function whose bytecode is then damaged
MalformedNodes == 2

\* ------------------------------------------------------------ basic values

\* Python's None where a Block is expected (BlockStackView.last_block)
None == 0
\* offset of the synthetic FUNCTION_EXIT node
FUNCTION_EXIT == -1

InSeq(x, s) == \E i \in 1..Len(s) : s[i] = x

RECURSIVE Flatten(_)
Flatten(ss) == IF ss = <<>> THEN <<>> ELSE Head(ss) \o Flatten(Tail(ss))

\* ------------------------------------------------------------- opcode sets

SetupOps == {"SETUP_FINALLY", "SETUP_EXCEPT", "SETUP_LOOP", "SETUP_WITH"}

CondJumpOps == {"POP_JUMP_IF_TRUE", "POP_JUMP_IF_FALSE",
                "JUMP_IF_TRUE_OR_POP", "JUMP_IF_FALSE_OR_POP", "FOR_ITER"}

UncondJumpOps == {"JUMP_FORWARD", "JUMP_ABSOLUTE"}

\* ops.boring_opnames: the sequential instructions
boring_opnames == {"LOAD_CONST", "POP_TOP"}

\* ops.jumps: the jump/branch instructions
jumps == UncondJumpOps \cup CondJumpOps

\* dis.hasjrel and dis.hasjabs: the opcodes whose argument is a label
HasLabel == UncondJumpOps \cup CondJumpOps \cup SetupOps \cup {"CONTINUE_LOOP"}

exception_handling_ops == {"SETUP_EXCEPT", "SETUP_FINALLY", "SETUP_WITH"}

\* ------------------------------------------- Block, BlockStack, BlockStackView

Block(creator, next_offset, parent) ==
    [creator |-> creator, next_offset |-> next_offset, parent |-> parent]

\* BlockStackView.__iter__: the blocks from last_block to the root
RECURSIVE iter(_, _)
iter(blocks, last_block) ==
    IF last_block = None THEN <<>>
    ELSE <<last_block>> \o iter(blocks, blocks[last_block].parent)

\* the namedtuple value of a block: what == and hash() of a Block see
RECURSIVE BlockValue(_, _)
BlockValue(blocks, block) ==
    IF block = None THEN <<>>
    ELSE <<<<blocks[block].creator, blocks[block].next_offset>>>>
             \o BlockValue(blocks, blocks[block].parent)

RECURSIVE enumerate_until(_, _, _, _)
enumerate_until(blocks, block, i, index) ==
    IF block = None THEN [raised |-> "IndexError", block |-> None]
    ELSE IF i = index THEN [raised |-> "", block |-> block]
    ELSE enumerate_until(blocks, blocks[block].parent, i + 1, index)

\* A faulty variant of __getitem__ that numbers the top of the stack 1.
getitem_from_one(blocks, view, index) ==
    IF ~(index >= 0) THEN [raised |-> "ValueError", block |-> None]
    ELSE enumerate_until(blocks, view, 1, index)

\* BlockStackView.__getitem__
getitem(blocks, view, index) ==
    IF ~(index >= 0) THEN [raised |-> "ValueError", block |-> None]
    ELSE enumerate_until(blocks, view, 0, index)

\* BlockStackView.pop
pop(blocks, view) ==
    IF view = None THEN [raised |-> "EmptyBlockStackException", view |-> None]
    ELSE [raised |-> "", view |-> blocks[view].parent]

\* A faulty variant of pop_until that keeps a record whose exit offset equals
\* the given offset.
RECURSIVE pop_until_strict(_, _, _)
pop_until_strict(blocks, view, offset) ==
    IF view # None /\ blocks[view].next_offset < offset
    THEN pop_until_strict(blocks, blocks[view].parent, offset)
    ELSE view

\* BlockStackView.pop_until
RECURSIVE pop_until(_, _, _)
pop_until(blocks, view, offset) ==
    IF view # None /\ blocks[view].next_offset <= offset
    THEN pop_until(blocks, blocks[view].parent, offset)
    ELSE view

\* A faulty variant of push that rewrites the top record of the view in place
\* instead of adding a record to the pool.
push_in_place(blocks, view, creator, next_offset) ==
    IF view = None
    THEN [blocks |-> Append(blocks, Block(creator, next_offset, view)),
          view |-> Len(blocks) + 1]
    ELSE [blocks |-> [blocks EXCEPT ![view] = Block(creator, next_offset, @.parent)],
          view |-> view]

\* BlockStackView.push with BlockStack.add
push(blocks, view, creator, next_offset) ==
    [blocks |-> Append(blocks, Block(creator, next_offset, view)),
     view |-> Len(blocks) + 1]

\* BlockStackView._first_X
RECURSIVE first_X(_, _, _)
first_X(blocks, block, X) ==
    IF block # None /\ blocks[block].creator # X
    THEN first_X(blocks, blocks[block].parent, X)
    ELSE block

first_loop(blocks, view) == first_X(blocks, view, "SETUP_LOOP")

\* ------------------------------------------------ exceptional_jump_targets

\* A faulty variant of exceptional_jump_targets that does not compare the
\* offset with the handler's: a handler already entered is a target again.
RECURSIVE exceptional_jump_targets_reentering(_, _, _)
exceptional_jump_targets_reentering(blocks, offset, blockstack_view) ==
    LET top == getitem(blocks, blockstack_view, 0) IN
    IF top.raised = "IndexError" THEN <<>>
    ELSE IF blocks[top.block].creator \in exception_handling_ops
         THEN <<blocks[top.block].next_offset>>
         ELSE exceptional_jump_targets_reentering(
                  blocks, offset, pop(blocks, blockstack_view).view)

\* the number of calls exceptional_jump_targets makes to itself
RECURSIVE exceptional_jump_targets_recursions(_, _, _)
exceptional_jump_targets_recursions(blocks, offset, blockstack_view) ==
    LET top == getitem(blocks, blockstack_view, 0) IN
    IF top.raised = "IndexError" THEN 0
    ELSE IF /\ blocks[top.block].creator \in exception_handling_ops
            /\ offset < blocks[top.block].next_offset
         THEN 0
         ELSE 1 + exceptional_jump_targets_recursions(
                      blocks, offset, pop(blocks, blockstack_view).view)

\* Every record is pushed by a SETUP_* instruction (lines 363-368), so the
\* creator of a record that is not exception handling is SETUP_LOOP.
RECURSIVE exceptional_jump_targets(_, _, _)
exceptional_jump_targets(blocks, offset, blockstack_view) ==
    LET top == getitem(blocks, blockstack_view, 0) IN
    IF top.raised = "IndexError" THEN <<>>
    ELSE LET inner_block == blocks[top.block]
             handler_offset == inner_block.next_offset
         IN  IF inner_block.creator \in exception_handling_ops
             THEN IF offset < handler_offset
                  THEN <<handler_offset>>
                  ELSE exceptional_jump_targets(
                           blocks, offset, pop(blocks, blockstack_view).view)
             ELSE exceptional_jump_targets(
                      blocks, offset, pop(blocks, blockstack_view).view)

\* ---------------------------------------------------- compute_jump_targets

EmptyMetadata == [has_return |-> FALSE, has_except |-> FALSE, broken_loops |-> <<>>]

Returned(targets, path_metadata, new_view, blocks) ==
    [raised |-> "", targets |-> targets, path_metadata |-> path_metadata,
     new_view |-> new_view, blocks |-> blocks]

Raised(exception, path_metadata, blockstack_view, blocks) ==
    [raised |-> exception, targets |-> <<>>, path_metadata |-> path_metadata,
     new_view |-> blockstack_view, blocks |-> blocks]

\* A faulty variant of return_targets that lets an except block intercept a
\* return as well; the deferred-return property must tell the two apart.
RECURSIVE return_targets_any_handler(_, _, _)
return_targets_any_handler(blocks, offset, block) ==
    IF block = None THEN <<>>
    ELSE IF /\ blocks[block].creator \in exception_handling_ops
            /\ offset < blocks[block].next_offset
         THEN <<blocks[block].next_offset>>
         ELSE return_targets_any_handler(blocks, offset, blocks[block].parent)

\* the RETURN_VALUE branch: the innermost finally/with block not yet entered
RECURSIVE return_targets(_, _, _)
return_targets(blocks, offset, block) ==
    IF block = None THEN <<>>
    ELSE IF /\ blocks[block].creator \in {"SETUP_FINALLY", "SETUP_WITH"}
            /\ offset < blocks[block].next_offset
         THEN <<blocks[block].next_offset>>
         ELSE return_targets(blocks, offset, blocks[block].parent)

\* A faulty variant of break_loop that leaves the outermost loop on the view
\* when the top record is a loop.
break_loop_outermost(blocks, instr, path_metadata, blockstack_view) ==
    LET top == getitem(blocks, blockstack_view, 0)
        chain == iter(blocks, blockstack_view)
        loops == {i \in 1..Len(chain) : blocks[chain[i]].creator = "SETUP_LOOP"}
        outermost == CHOOSE i \in loops : \A j \in loops : j <= i
    IN  IF top.raised # ""
        THEN Raised(top.raised, path_metadata, blockstack_view, blocks)
        ELSE LET md == [path_metadata EXCEPT !.broken_loops =
                           Append(@, first_loop(blocks, blockstack_view))]
             IN  IF blocks[top.block].creator = "SETUP_LOOP"
                 THEN Returned(<<blocks[chain[outermost]].next_offset>>, md,
                               blockstack_view, blocks)
                 ELSE Returned(exceptional_jump_targets(blocks, instr.offset,
                                                        blockstack_view),
                               md, blockstack_view, blocks)

\* the BREAK_LOOP branch
break_loop(blocks, instr, path_metadata, blockstack_view) ==
    LET top == getitem(blocks, blockstack_view, 0) IN
    IF top.raised # ""
    THEN Raised(top.raised, path_metadata, blockstack_view, blocks)
    ELSE LET inner_block == blocks[top.block]
             md == [path_metadata EXCEPT !.broken_loops =
                       Append(@, first_loop(blocks, blockstack_view))]
         IN  IF inner_block.creator = "SETUP_LOOP"
             THEN Returned(<<inner_block.next_offset>>, md, blockstack_view, blocks)
             ELSE Returned(exceptional_jump_targets(blocks, instr.offset, blockstack_view),
                           md, blockstack_view, blocks)

\* the CONTINUE_LOOP branch
continue_loop(blocks, instr, path_metadata, blockstack_view) ==
    LET top == getitem(blocks, blockstack_view, 0) IN
    IF top.raised # ""
    THEN Raised(top.raised, path_metadata, blockstack_view, blocks)
    ELSE IF blocks[top.block].creator = "SETUP_LOOP"
         THEN Returned(<<instr.argval>>, path_metadata, blockstack_view, blocks)
         ELSE Returned(exceptional_jump_targets(blocks, instr.offset, blockstack_view),
                       path_metadata, blockstack_view, blocks)

\* A faulty variant of end_finally that lets a deferred return leave the
\* function although a finally or with scope still encloses the handler.
end_finally_eager(blocks, instr, path_metadata, blockstack_view) ==
    LET targets0 == <<instr.offset + 2>>
                      \o exceptional_jump_targets(blocks, instr.offset, blockstack_view)
        targets1 == IF path_metadata.has_return
                    THEN Append(targets0, FUNCTION_EXIT)
                    ELSE targets0
        loop == first_loop(blocks, blockstack_view)
        broken == path_metadata.broken_loops
        is_broken == \E i \in 1..Len(broken) :
                        BlockValue(blocks, broken[i]) = BlockValue(blocks, loop)
    IN  IF is_broken
        THEN IF loop = None
             THEN Raised("AttributeError", path_metadata, blockstack_view, blocks)
             ELSE Returned(Append(targets1, blocks[loop].next_offset),
                           path_metadata, blockstack_view, blocks)
        ELSE Returned(targets1, path_metadata, blockstack_view, blocks)

\* the END_FINALLY branch
end_finally(blocks, instr, path_metadata, blockstack_view) ==
    LET next_offset == instr.offset + 2
        chain == iter(blocks, blockstack_view)
        targets0 == <<next_offset>>
                      \o exceptional_jump_targets(blocks, instr.offset, blockstack_view)
        finally_block_on_stack ==
            \E i \in 1..Len(chain) :
                blocks[chain[i]].creator \in {"SETUP_FINALLY", "SETUP_WITH"}
        targets1 == IF path_metadata.has_return /\ ~finally_block_on_stack
                    THEN Append(targets0, FUNCTION_EXIT)
                    ELSE targets0
        loop == first_loop(blocks, blockstack_view)
        broken == path_metadata.broken_loops
        is_broken == \E i \in 1..Len(broken) :
                        BlockValue(blocks, broken[i]) = BlockValue(blocks, loop)
    IN  IF is_broken
        THEN IF loop = None
             THEN Raised("AttributeError", path_metadata, blockstack_view, blocks)
             ELSE Returned(Append(targets1, blocks[loop].next_offset),
                           path_metadata, blockstack_view, blocks)
        ELSE Returned(targets1, path_metadata, blockstack_view, blocks)

compute_jump_targets(blocks, instr, path_metadata, blockstack_view) ==
    LET opname == instr.opname
        offset == instr.offset
        next_offset == instr.offset + 2
    IN  CASE opname \in boring_opnames ->
               Returned(Append(exceptional_jump_targets(blocks, offset, blockstack_view),
                               next_offset),
                        path_metadata, blockstack_view, blocks)
          [] opname \in UncondJumpOps ->
               Returned(<<instr.argval>>, path_metadata, blockstack_view, blocks)
          [] opname \in CondJumpOps ->
               Returned(<<next_offset, instr.argval>>, path_metadata, blockstack_view, blocks)
          [] opname \in {"WITH_CLEANUP_START", "WITH_CLEANUP_FINISH"} ->
               Returned(<<next_offset>>, path_metadata, blockstack_view, blocks)
          [] opname = "POP_EXCEPT" ->
               Returned(<<next_offset>>, path_metadata, blockstack_view, blocks)
          [] opname = "BREAK_LOOP" ->
               break_loop(blocks, instr, path_metadata, blockstack_view)
          [] opname = "POP_BLOCK" ->
               Returned(<<next_offset>>, path_metadata, blockstack_view, blocks)
          [] opname = "CONTINUE_LOOP" ->
               continue_loop(blocks, instr, path_metadata, blockstack_view)
          [] opname = "RETURN_VALUE" ->
               LET found == return_targets(blocks, offset, blockstack_view)
                   targets == IF found # <<>> THEN found ELSE <<FUNCTION_EXIT>>
               IN  Returned(targets, [path_metadata EXCEPT !.has_return = TRUE],
                            blockstack_view, blocks)
          [] opname \in SetupOps ->
               LET pushed == push(blocks, blockstack_view, opname, instr.argval)
               IN  Returned(<<next_offset>>, path_metadata, pushed.view, pushed.blocks)
          [] opname = "END_FINALLY" ->
               end_finally(blocks, instr, path_metadata, blockstack_view)
          [] opname = "RAISE_VARARGS" ->
               Returned(<<next_offset>>
                          \o exceptional_jump_targets(blocks, offset, blockstack_view),
                        [path_metadata EXCEPT !.has_except = TRUE],
                        blockstack_view, blocks)
          [] OTHER ->
               Raised("ValueError", path_metadata, blockstack_view, blocks)

\* ------------------------------------------------- the instruction streams
\* What dis.Bytecode(code) yields: instructions at offsets 0, 2, 4, ... with
\* argval the label of a jump and is_jump_target set by dis.findlabels.

\* a position-independent instruction: rel is the distance, in instructions,
\* to its label; pending marks a `continue` whose loop is not yet closed
Op(opname) == [opname |-> opname, rel |-> 0, pending |-> FALSE]
Jump(opname, rel) == [opname |-> opname, rel |-> rel, pending |-> FALSE]
Continue(opname) == [opname |-> opname, rel |-> 0, pending |-> TRUE]

\* statement contexts: outside any loop; directly in a loop body; in a try,
\* except or with body inside a loop; in a finally body inside a loop
InTry(ctx) == IF ctx = "loop" THEN "try" ELSE ctx
InFinally(ctx) == IF ctx = "none" THEN "none" ELSE "fin"

\* x; return v; raise e; break; continue
Atoms(ctx) ==
    {<<Op("LOAD_CONST")>>,
     <<Op("LOAD_CONST"), Op("RETURN_VALUE")>>,
     <<Op("LOAD_CONST"), Op("RAISE_VARARGS")>>}
    \cup (IF ctx \in {"loop", "try", "fin"} THEN {<<Op("BREAK_LOOP")>>} ELSE {})
    \cup (IF ctx = "loop" THEN {<<Continue("JUMP_ABSOLUTE")>>} ELSE {})
    \cup (IF ctx = "try" THEN {<<Continue("CONTINUE_LOOP")>>} ELSE {})

\* if c: b   (the test is loaded, then branched on)
IfStmt(b) == <<Op("LOAD_CONST"), Jump("POP_JUMP_IF_FALSE", Len(b) + 1)>> \o b

\* for v in it: b   (the iterator is loaded before FOR_ITER and the item is
\* stored after it; a pending continue in b jumps to the FOR_ITER)
ForStmt(b) ==
    <<Jump("SETUP_LOOP", Len(b) + 6), Op("LOAD_CONST"),
      Jump("FOR_ITER", Len(b) + 3), Op("POP_TOP")>>
    \o [j \in 1..Len(b) |->
           IF b[j].pending THEN Jump(b[j].opname, 0 - (j + 1)) ELSE b[j]]
    \o <<Jump("JUMP_ABSOLUTE", 0 - (Len(b) + 2)), Op("POP_BLOCK")>>

\* try: b finally: f
TryFinallyStmt(b, f) ==
    <<Jump("SETUP_FINALLY", Len(b) + 3)>> \o b
    \o <<Op("POP_BLOCK"), Op("LOAD_CONST")>> \o f \o <<Op("END_FINALLY")>>

\* try: b except E: h   (the handler loads E, tests the match, pops the
\* exception and runs h)
TryExceptStmt(b, h) ==
    <<Jump("SETUP_EXCEPT", Len(b) + 3)>> \o b
    \o <<Op("POP_BLOCK"), Jump("JUMP_FORWARD", Len(h) + 7),
         Op("LOAD_CONST"), Jump("POP_JUMP_IF_FALSE", Len(h) + 4), Op("POP_TOP")>>
    \o h
    \o <<Op("POP_EXCEPT"), Jump("JUMP_FORWARD", 2), Op("END_FINALLY")>>

\* with m: b   (m is loaded before SETUP_WITH, its __enter__ value popped)
WithStmt(b) ==
    <<Op("LOAD_CONST"), Jump("SETUP_WITH", Len(b) + 4), Op("POP_TOP")>> \o b
    \o <<Op("POP_BLOCK"), Op("LOAD_CONST"), Op("WITH_CLEANUP_START"),
         Op("WITH_CLEANUP_FINISH"), Op("END_FINALLY")>>

\* the statement lists built from exactly n syntax nodes
RECURSIVE Stmts(_, _)
Stmts(n, ctx) ==
    IF n = 1 THEN Atoms(ctx)
    ELSE {IfStmt(b) : b \in Stmts(n - 1, ctx)}
         \cup {ForStmt(b) : b \in Stmts(n - 1, "loop")}
         \cup {WithStmt(b) : b \in Stmts(n - 1, InTry(ctx))}
         \cup UNION {{TryFinallyStmt(b, f) : b \in Stmts(k, InTry(ctx)),
                                             f \in Stmts(n - 1 - k, InFinally(ctx))}
                     : k \in 1..(n - 2)}
         \cup UNION {{TryExceptStmt(b, h) : b \in Stmts(k, InTry(ctx)),
                                            h \in Stmts(n - 1 - k, InTry(ctx))}
                     : k \in 1..(n - 2)}
         \cup UNION {{a \o b : a \in Stmts(k, ctx), b \in Stmts(n - 1 - k, ctx)}
                     : k \in 1..(n - 2)}

\* dis.findlabels: the offsets some instruction's argument resolves to
findlabels(listing) ==
    {listing[j].argval : j \in {i \in 1..Len(listing) : listing[i].opname \in HasLabel}}

\* dis.Instruction for each entry of a listing of <<opname, argval>>
Bytecode(listing) ==
    [i \in 1..Len(listing) |->
        [opname |-> listing[i].opname,
         offset |-> 2 * (i - 1),
         argval |-> listing[i].argval,
         is_jump_target |-> (2 * (i - 1)) \in findlabels(listing)]]

\* a compiled function body followed by the function's final return
Assemble(frag) ==
    LET body == frag \o <<Op("LOAD_CONST"), Op("RETURN_VALUE")>> IN
    Bytecode([i \in 1..Len(body) |->
                 [opname |-> body[i].opname,
                  argval |-> IF body[i].opname \in HasLabel
                             THEN 2 * (i - 1 + body[i].rel) ELSE 0]])

\* for a in it: (break; for b in it: x)   a loop written after a break
DeadInnerLoop == ForStmt(<<Op("BREAK_LOOP")>> \o ForStmt(<<Op("LOAD_CONST")>>))

\* for a in it: (if c: (break; for b in it: x); y)   the same under an if
DeadLoopUnderIf ==
    ForStmt(IfStmt(<<Op("BREAK_LOOP")>> \o ForStmt(<<Op("LOAD_CONST")>>))
            \o <<Op("LOAD_CONST")>>)

\* for a in it: (try: break finally: (break; for b in it: x))   the same in
\* a finally clause that leaves the loop itself
DeadLoopInFinally ==
    ForStmt(TryFinallyStmt(<<Op("BREAK_LOOP")>>,
                           <<Op("BREAK_LOOP")>> \o ForStmt(<<Op("LOAD_CONST")>>)))

CompiledPrograms ==
    {Assemble(f) : f \in UNION {Stmts(n, "none") : n \in 1..MaxNodes}
                          \cup {DeadInnerLoop, DeadLoopUnderIf, DeadLoopInFinally}}

\* free-form streams of loads, returns and jumps to any instruction, ending
\* in a return or a jump
RawInstructions(n) ==
    {[opname |-> "LOAD_CONST", argval |-> 0], [opname |-> "RETURN_VALUE", argval |-> 0]}
    \cup {[opname |-> "JUMP_ABSOLUTE", argval |-> 2 * (k - 1)] : k \in 1..n}

RawPrograms ==
    UNION {{Bytecode(l) : l \in {s \in [1..n -> RawInstructions(n)] :
                                    s[n].opname # "LOAD_CONST"}}
           : n \in 1..RawLen}

\* the bytecode of f in TestCFG.test_filter (for i in range(x): print(i);
\* if i > 3: break; return 1), each load/call/store/compare written LOAD_CONST
TestFilterListing ==
    <<[opname |-> "SETUP_LOOP", argval |-> 36]>>
    \o [i \in 1..4 |-> [opname |-> "LOAD_CONST", argval |-> 0]]
    \o <<[opname |-> "FOR_ITER", argval |-> 34]>>
    \o [i \in 1..4 |-> [opname |-> "LOAD_CONST", argval |-> 0]]
    \o <<[opname |-> "POP_TOP", argval |-> 0]>>
    \o [i \in 1..3 |-> [opname |-> "LOAD_CONST", argval |-> 0]]
    \o <<[opname |-> "POP_JUMP_IF_FALSE", argval |-> 10],
         [opname |-> "BREAK_LOOP", argval |-> 0],
         [opname |-> "JUMP_ABSOLUTE", argval |-> 10],
         [opname |-> "POP_BLOCK", argval |-> 0],
         [opname |-> "LOAD_CONST", argval |-> 0],
         [opname |-> "RETURN_VALUE", argval |-> 0]>>

TestFilterCode == Bytecode(TestFilterListing)

\* an opcode for which compute_jump_targets has no branch
UnsupportedOp == "SETUP_ASYNC_WITH"

\* what a damaged stream holds in place of one instruction of a listing of n
\* instructions: an unsupported opcode, a break or continue outside any loop,
\* or a scope entry that nothing closes
Damage(n) ==
    {[opname |-> UnsupportedOp, argval |-> 0],
     [opname |-> "BREAK_LOOP", argval |-> 0],
     [opname |-> "CONTINUE_LOOP", argval |-> 0],
     [opname |-> "SETUP_LOOP", argval |-> 2 * (n - 1)]}

\* the listing <<opname, argval>> of a decoded stream
Listing(c) == [i \in 1..Len(c) |-> [opname |-> c[i].opname, argval |-> c[i].argval]]

\* compiled functions with one instruction replaced
MalformedPrograms ==
    UNION {{Bytecode([Listing(c) EXCEPT ![i] = d]) : i \in 1..Len(c), d \in Damage(Len(c))}
           : c \in {Assemble(f) : f \in UNION {Stmts(n, "none") : n \in 1..MalformedNodes}}}

Programs == CompiledPrograms \cup RawPrograms \cup {TestFilterCode}

\* ------------------------------------------------------------------- state

VARIABLES
    code,                      \* bytecode: the decoded instruction stream
    pc,                        \* position of the `for instr in bytecode` loop
    status,                    \* "running", "done", "error"; "workbench"
    error,                     \* the exception that ended CFG.__init__, or ""
    basic_blocks,              \* self.basic_blocks: offset -> BasicBlock
    blockstack,                \* self._blockstack.blocks: the pool of Blocks
    reachable_instructions,
    unreachable_jump_targets,
    joined,                    \* offset -> the view and metadata the joins gave
    views,                     \* workbench: the views obtained so far
    denoted,                   \* workbench: what each view denoted when obtained
    calls,                     \* workbench: calls made
    last_call,                 \* workbench: the last call and its outcome
    constructed                \* what an earlier construction from the same code gave

vars == <<code, pc, status, error, basic_blocks, blockstack, reachable_instructions,
          unreachable_jump_targets, joined, views, denoted, calls, last_call,
          constructed>>

cfg_vars == <<code, pc, status, error, basic_blocks, reachable_instructions,
              unreachable_jump_targets, joined, constructed>>

workbench_vars == <<views, denoted, calls, last_call>>

\* ------------------------------------------------------------ CFG.__init__

BasicBlock(instruction) ==
    [instruction |-> instruction, offset |-> instruction.offset,
     blockstack_view |-> None, successors |-> <<>>, path_metadata |-> EmptyMetadata]

FunctionExit ==
    [opname |-> "FUNCTION_EXIT", offset |-> FUNCTION_EXIT, argval |-> 0,
     is_jump_target |-> FALSE]

is_reachable(instr, reachable, unreachable_targets) ==
    IF instr.offset \in reachable THEN TRUE
    ELSE IF instr.is_jump_target THEN instr.offset \notin unreachable_targets
    ELSE FALSE

\* the keys of self.basic_blocks in insertion order: -1, then the offsets in
\* the ascending order in which the loop inserts them
RECURSIVE keys(_)
keys(offsets) ==
    IF offsets = {} THEN <<>>
    ELSE LET first == CHOOSE x \in offsets : \A y \in offsets : x <= y
         IN  <<first>> \o keys(offsets \ {first})

predecessors_of(bbs, current_offset) ==
    SelectSeq(keys(DOMAIN bbs), LAMBDA o : InSeq(current_offset, bbs[o].successors))

\* A faulty variant of join_blockstack_views without the assertion: when the
\* predecessors disagree it keeps the view of the first one.
join_blockstack_views_unchecked(bbs, blocks, reachable, unreachable_targets, current_offset) ==
    LET preds == SelectSeq(predecessors_of(bbs, current_offset),
                           LAMBDA p : is_reachable(bbs[p].instruction, reachable,
                                                   unreachable_targets))
    IN  IF Len(preds) > 0
        THEN [raised |-> "",
              view |-> pop_until(blocks, bbs[preds[1]].blockstack_view, current_offset)]
        ELSE [raised |-> "", view |-> None]

join_blockstack_views(bbs, blocks, reachable, unreachable_targets, current_offset) ==
    LET preds == SelectSeq(predecessors_of(bbs, current_offset),
                           LAMBDA p : is_reachable(bbs[p].instruction, reachable,
                                                   unreachable_targets))
        popped == [i \in 1..Len(preds) |->
                      pop_until(blocks, bbs[preds[i]].blockstack_view, current_offset)]
        values == {BlockValue(blocks, popped[i]) : i \in 1..Len(preds)}
    IN  IF Cardinality(values) > 1 THEN [raised |-> "AssertionError", view |-> None]
        ELSE IF Len(preds) > 0 THEN [raised |-> "", view |-> popped[1]]
        ELSE [raised |-> "", view |-> None]

\* A faulty variant of join_path_metadata that does not inherit the broken
\* loops of the predecessors.
join_path_metadata_no_loops(bbs, current_offset) ==
    LET preds == predecessors_of(bbs, current_offset) IN
    [has_return |-> \E i \in 1..Len(preds) : bbs[preds[i]].path_metadata.has_return,
     has_except |-> \E i \in 1..Len(preds) : bbs[preds[i]].path_metadata.has_except,
     broken_loops |-> <<>>]

\* A faulty variant of join_path_metadata that sets a flag only when every
\* predecessor has it.
join_path_metadata_unanimous(bbs, current_offset) ==
    LET preds == predecessors_of(bbs, current_offset) IN
    [has_return |-> /\ Len(preds) > 0
                    /\ \A i \in 1..Len(preds) : bbs[preds[i]].path_metadata.has_return,
     has_except |-> /\ Len(preds) > 0
                    /\ \A i \in 1..Len(preds) : bbs[preds[i]].path_metadata.has_except,
     broken_loops |->
         Flatten([i \in 1..Len(preds) |-> bbs[preds[i]].path_metadata.broken_loops])]

\* A faulty variant of join_path_metadata whose dictionary outlives the call:
\* a later construction starts from the flags an earlier one has set.
join_path_metadata_shared(bbs, current_offset) ==
    LET preds == predecessors_of(bbs, current_offset) IN
    [has_return |-> \/ constructed.status # "none"
                    \/ \E i \in 1..Len(preds) : bbs[preds[i]].path_metadata.has_return,
     has_except |-> \E i \in 1..Len(preds) : bbs[preds[i]].path_metadata.has_except,
     broken_loops |->
         Flatten([i \in 1..Len(preds) |-> bbs[preds[i]].path_metadata.broken_loops])]

join_path_metadata(bbs, current_offset) ==
    LET preds == predecessors_of(bbs, current_offset) IN
    [has_return |-> \E i \in 1..Len(preds) : bbs[preds[i]].path_metadata.has_return,
     has_except |-> \E i \in 1..Len(preds) : bbs[preds[i]].path_metadata.has_except,
     broken_loops |->
         Flatten([i \in 1..Len(preds) |-> bbs[preds[i]].path_metadata.broken_loops])]

\* one iteration of the loop for a reachable instruction: lines 93-110
Visit(bbs, blocks, reachable, unreachable_targets, instr) ==
    LET bbs1 == [o \in DOMAIN bbs \cup {instr.offset} |->
                    IF o = instr.offset THEN BasicBlock(instr) ELSE bbs[o]]
        metadata == join_path_metadata(bbs1, instr.offset)
        view == join_blockstack_views(bbs1, blocks, reachable, unreachable_targets,
                                      instr.offset)
        computed == compute_jump_targets(blocks, instr, metadata, view.view)
    IN  IF view.raised # ""
        THEN [raised |-> view.raised, bbs |-> bbs1, blocks |-> blocks,
              successors |-> <<>>, joined |-> [view |-> None, metadata |-> metadata]]
        ELSE IF computed.raised # ""
        THEN [raised |-> computed.raised, bbs |-> bbs1, blocks |-> blocks,
              successors |-> <<>>, joined |-> [view |-> view.view, metadata |-> metadata]]
        ELSE [raised |-> "",
              bbs |-> [bbs1 EXCEPT ![instr.offset] =
                          [@ EXCEPT !.successors = computed.targets,
                                    !.blockstack_view = computed.new_view,
                                    !.path_metadata = computed.path_metadata]],
              blocks |-> computed.blocks,
              successors |-> computed.targets,
              joined |-> [view |-> view.view, metadata |-> metadata]]

Init ==
    /\ code \in Programs
    /\ pc = 1
    /\ status = "running"
    /\ error = ""
    /\ basic_blocks = [o \in {FUNCTION_EXIT} |-> BasicBlock(FunctionExit)]
    /\ blockstack = <<>>
    /\ reachable_instructions = {0}
    /\ unreachable_jump_targets = {}
    /\ joined = <<>>
    /\ views = <<>>
    /\ denoted = <<>>
    /\ calls = 0
    /\ last_call = [op |-> "none"]
    /\ constructed = [status |-> "none"]

\* lines 87-91: an unreachable instruction is skipped
SkipInstruction ==
    /\ status = "running"
    /\ pc <= Len(code)
    /\ ~is_reachable(code[pc], reachable_instructions, unreachable_jump_targets)
    /\ unreachable_jump_targets' =
           IF code[pc].opname \in jumps
           THEN unreachable_jump_targets \cup {code[pc].argval}
           ELSE unreachable_jump_targets
    /\ pc' = pc + 1
    /\ UNCHANGED <<code, status, error, basic_blocks, blockstack,
                   reachable_instructions, joined>>
    /\ UNCHANGED workbench_vars
    /\ UNCHANGED constructed

\* lines 93-110: a reachable instruction becomes a node
ProcessInstruction ==
    /\ status = "running"
    /\ pc <= Len(code)
    /\ is_reachable(code[pc], reachable_instructions, unreachable_jump_targets)
    /\ LET v == Visit(basic_blocks, blockstack, reachable_instructions,
                      unreachable_jump_targets, code[pc])
       IN  /\ v.raised = ""
           /\ basic_blocks' = v.bbs
           /\ blockstack' = v.blocks
           /\ reachable_instructions' =
                  reachable_instructions \cup {v.successors[i] : i \in 1..Len(v.successors)}
           /\ joined' = [o \in DOMAIN joined \cup {code[pc].offset} |->
                            IF o = code[pc].offset THEN v.joined ELSE joined[o]]
    /\ pc' = pc + 1
    /\ UNCHANGED <<code, status, error, unreachable_jump_targets>>
    /\ UNCHANGED workbench_vars
    /\ UNCHANGED constructed

\* an exception leaves CFG.__init__: no CFG object is constructed
RaiseError ==
    /\ status = "running"
    /\ pc <= Len(code)
    /\ is_reachable(code[pc], reachable_instructions, unreachable_jump_targets)
    /\ LET v == Visit(basic_blocks, blockstack, reachable_instructions,
                      unreachable_jump_targets, code[pc])
       IN  /\ v.raised # ""
           /\ basic_blocks' = v.bbs
           /\ error' = v.raised
    /\ status' = "error"
    /\ UNCHANGED <<code, pc, blockstack, reachable_instructions,
                   unreachable_jump_targets, joined>>
    /\ UNCHANGED workbench_vars
    /\ UNCHANGED constructed

\* the loop is exhausted: __init__ returns the graph
Finish ==
    /\ status = "running"
    /\ pc > Len(code)
    /\ status' = "done"
    /\ UNCHANGED <<code, pc, error, basic_blocks, blockstack, reachable_instructions,
                   unreachable_jump_targets, joined>>
    /\ UNCHANGED workbench_vars
    /\ UNCHANGED constructed

Next == SkipInstruction \/ ProcessInstruction \/ RaiseError \/ Finish

Spec == Init /\ [][Next]_vars

\* construction started on any stream, the damaged ones included
InitMalformed ==
    /\ code \in Programs \cup MalformedPrograms
    /\ pc = 1
    /\ status = "running"
    /\ error = ""
    /\ basic_blocks = [o \in {FUNCTION_EXIT} |-> BasicBlock(FunctionExit)]
    /\ blockstack = <<>>
    /\ reachable_instructions = {0}
    /\ unreachable_jump_targets = {}
    /\ joined = <<>>
    /\ views = <<>>
    /\ denoted = <<>>
    /\ calls = 0
    /\ last_call = [op |-> "none"]
    /\ constructed = [status |-> "none"]

SpecMalformed == InitMalformed /\ [][Next]_vars

\* CFG(code) is called again with the same code object once the first call has
\* returned or raised; what the first call gave is kept for comparison
ConstructAgain ==
    /\ status \in {"done", "error"}
    /\ constructed.status = "none"
    /\ constructed' = [status |-> status, error |-> error, basic_blocks |-> basic_blocks]
    /\ pc' = 1
    /\ status' = "running"
    /\ error' = ""
    /\ basic_blocks' = [o \in {FUNCTION_EXIT} |-> BasicBlock(FunctionExit)]
    /\ blockstack' = <<>>
    /\ reachable_instructions' = {0}
    /\ unreachable_jump_targets' = {}
    /\ joined' = <<>>
    /\ UNCHANGED code
    /\ UNCHANGED workbench_vars

NextTwice == Next \/ ConstructAgain

SpecTwice == Init /\ [][NextTwice]_vars

\* ------------------------------------------------- the block-stack workbench
\* A client of BlockStackView alone: starting from the empty view of a fresh
\* BlockStack it calls push, pop, pop_until and __getitem__ on any view it
\* holds, and keeps every view it is given.

WorkbenchCreators == {"SETUP_LOOP", "SETUP_FINALLY"}
WorkbenchOffsets == {2, 4, 6}
WorkbenchIndexes == {-1, 0, 1, 2}

\* the chain of records a view denotes: each record with its identity
Denotes(blocks, view) ==
    LET chain == iter(blocks, view) IN
    [i \in 1..Len(chain) |-> [block |-> chain[i], record |-> blocks[chain[i]]]]

InitWorkbench ==
    /\ code = <<>>
    /\ pc = 1
    /\ status = "workbench"
    /\ error = ""
    /\ basic_blocks = <<>>
    /\ blockstack = <<>>
    /\ reachable_instructions = {}
    /\ unreachable_jump_targets = {}
    /\ joined = <<>>
    /\ views = <<None>>
    /\ denoted = <<Denotes(<<>>, None)>>
    /\ calls = 0
    /\ last_call = [op |-> "none"]
    /\ constructed = [status |-> "none"]

CallPush ==
    /\ status = "workbench"
    /\ calls < MaxCalls
    /\ \E v \in 1..Len(views), creator \in WorkbenchCreators, next_offset \in WorkbenchOffsets :
          LET r == push(blockstack, views[v], creator, next_offset) IN
          /\ blockstack' = r.blocks
          /\ views' = Append(views, r.view)
          /\ denoted' = Append(denoted, Denotes(r.blocks, r.view))
          /\ last_call' = [op |-> "push", on |-> views[v], creator |-> creator,
                           offset |-> next_offset, raised |-> "", result |-> r.view,
                           pool |-> blockstack]
    /\ calls' = calls + 1
    /\ UNCHANGED cfg_vars

CallPop ==
    /\ status = "workbench"
    /\ calls < MaxCalls
    /\ \E v \in 1..Len(views) :
          LET r == pop(blockstack, views[v]) IN
          /\ views' = IF r.raised = "" THEN Append(views, r.view) ELSE views
          /\ denoted' = IF r.raised = "" THEN Append(denoted, Denotes(blockstack, r.view))
                        ELSE denoted
          /\ last_call' = [op |-> "pop", on |-> views[v], raised |-> r.raised,
                           result |-> r.view, pool |-> blockstack]
    /\ calls' = calls + 1
    /\ UNCHANGED blockstack
    /\ UNCHANGED cfg_vars

CallPopUntil ==
    /\ status = "workbench"
    /\ calls < MaxCalls
    /\ \E v \in 1..Len(views), offset \in WorkbenchOffsets :
          LET r == pop_until(blockstack, views[v], offset) IN
          /\ views' = Append(views, r)
          /\ denoted' = Append(denoted, Denotes(blockstack, r))
          /\ last_call' = [op |-> "pop_until", on |-> views[v], offset |-> offset,
                           raised |-> "", result |-> r, pool |-> blockstack]
    /\ calls' = calls + 1
    /\ UNCHANGED blockstack
    /\ UNCHANGED cfg_vars

CallGetItem ==
    /\ status = "workbench"
    /\ calls < MaxCalls
    /\ \E v \in 1..Len(views), index \in WorkbenchIndexes :
          LET r == getitem(blockstack, views[v], index) IN
          last_call' = [op |-> "getitem", on |-> views[v], index |-> index,
                        raised |-> r.raised, result |-> r.block, pool |-> blockstack]
    /\ calls' = calls + 1
    /\ UNCHANGED <<blockstack, views, denoted>>
    /\ UNCHANGED cfg_vars

CallExceptionalJumpTargets ==
    /\ status = "workbench"
    /\ calls < MaxCalls
    /\ \E v \in 1..Len(views), offset \in WorkbenchOffsets :
          last_call' = [op |-> "exceptional_jump_targets", on |-> views[v],
                        offset |-> offset, raised |-> "",
                        result |-> exceptional_jump_targets(blockstack, offset, views[v]),
                        recursions |-> exceptional_jump_targets_recursions(
                                           blockstack, offset, views[v]),
                        pool |-> blockstack]
    /\ calls' = calls + 1
    /\ UNCHANGED <<blockstack, views, denoted>>
    /\ UNCHANGED cfg_vars

NextWorkbench ==
    CallPush \/ CallPop \/ CallPopUntil \/ CallGetItem \/ CallExceptionalJumpTargets

SpecWorkbench == InitWorkbench /\ [][NextWorkbench]_vars

\* ------------------------------------------------------- reading the graph

\* the offsets whose instruction was processed into a node
Processed == DOMAIN joined

Successors(o) == {basic_blocks[o].successors[i] : i \in 1..Len(basic_blocks[o].successors)}

Instruction(o) == code[(o \div 2) + 1]

IsInstruction(o) == o >= 0 /\ o % 2 = 0 /\ (o \div 2) + 1 <= Len(code)

\* the nodes the graph's edges lead to from the nodes in `from`
RECURSIVE ReachableFrom(_)
ReachableFrom(from) ==
    LET more == from \cup UNION {Successors(o) : o \in from \cap DOMAIN basic_blocks}
    IN  IF more = from THEN from ELSE ReachableFrom(more)

\* the least index of a non-empty set of positions
Least(S) == CHOOSE i \in S : \A j \in S : i <= j

\* the nodes reached from `from` along edges that do not leave a node of stop
RECURSIVE Along(_, _)
Along(from, stop) ==
    LET more == from \cup UNION {Successors(o) : o \in (from \ stop) \cap DOMAIN basic_blocks}
    IN  IF more = from THEN from ELSE Along(more, stop)

IsNode(o, opname) == o \in Processed /\ Instruction(o).opname = opname

\* the loop record a BREAK_LOOP node found on its view, or None
LoopRecord(b) == first_loop(blockstack, joined[b].view)

\* the exit offset SETUP_LOOP records for the loop iterated by FOR_ITER f: the
\* offset after the POP_BLOCK that FOR_ITER jumps to
LoopExit(f) == Instruction(f).argval + 2

\* the BREAK_LOOP nodes whose nearest loop record is the loop of FOR_ITER f
BreaksOf(f) ==
    {b \in Processed : /\ Instruction(b).opname = "BREAK_LOOP"
                       /\ LoopRecord(b) # None
                       /\ blockstack[LoopRecord(b)].next_offset = LoopExit(f)}

\* the nodes a BREAK_LOOP b of the loop of FOR_ITER f reaches before control
\* leaves the loop body or returns to the iteration step
Detour(b, f) ==
    Along({b}, {o \in DOMAIN basic_blocks : ~(f < o /\ o < Instruction(f).argval)})

\* the END_FINALLY that closes the handler entered at offset o: the first one
\* not closing a try or with statement opened after o
RECURSIVE HandlerEnd(_, _)
HandlerEnd(o, depth) ==
    IF ~IsInstruction(o) THEN {}
    ELSE IF Instruction(o).opname = "END_FINALLY"
         THEN IF depth = 0 THEN {o} ELSE HandlerEnd(o + 2, depth - 1)
    ELSE IF Instruction(o).opname \in exception_handling_ops
         THEN HandlerEnd(o + 2, depth + 1)
    ELSE HandlerEnd(o + 2, depth)

\* the BREAK_LOOP nodes that found a try or with record above a loop record
DeferredBreaks ==
    {b \in Processed : /\ Instruction(b).opname = "BREAK_LOOP"
                       /\ joined[b].view # None
                       /\ blockstack[joined[b].view].creator \in exception_handling_ops
                       /\ LoopRecord(b) # None}

Predecessors(o) == {p \in DOMAIN basic_blocks : o \in Successors(p)}

ConditionalBreak(b) == b >= 2 /\ Instruction(b - 2).opname = "POP_JUMP_IF_FALSE"

\* ------------------------------------------------------------------ claims

\* C1 (as claimed). Closure: in a constructed graph every offset in every
\* node's successor list is -1 or the offset of a node of the graph.
C1_Closure ==
    status = "done" =>
        \A o \in DOMAIN basic_blocks :
            \A s \in Successors(o) : s = FUNCTION_EXIT \/ s \in DOMAIN basic_blocks

\* the offsets right after an unconditional jump or a RETURN_VALUE that no
\* node of the graph has as a successor: targets of no jump the construction
\* reached, and reached by no other edge either
DeadOffsets ==
    {o \in {2 * i : i \in 1..(Len(code) - 1)} :
        /\ Instruction(o - 2).opname \in UncondJumpOps \cup {"RETURN_VALUE"}
        /\ \A p \in DOMAIN basic_blocks : o \notin Successors(p)}

\* C2 (as claimed). Dead-code pruning: an instruction right after an
\* unconditional jump or a RETURN_VALUE that is the target of no reachable
\* jump is not a node of the finished graph.  (Read with the least demand on
\* the code: a jump counts as reachable as soon as it is a node.)
C2_DeadCodePruned ==
    status = "done" => \A o \in DeadOffsets : o \notin DOMAIN basic_blocks

\* the finally and with records that can intercept a return at offset o: the
\* positions on the chain of its view whose scope exits after o
InterceptingRecords(o) ==
    LET chain == iter(blockstack, joined[o].view) IN
    {i \in 1..Len(chain) :
        /\ blockstack[chain[i]].creator \in {"SETUP_FINALLY", "SETUP_WITH"}
        /\ blockstack[chain[i]].next_offset > o}

C4_BreakReachesIterationExit ==
    status = "done" =>
        \A f \in Processed :
            (Instruction(f).opname = "FOR_ITER" /\ \E b \in BreaksOf(f) : ConditionalBreak(b))
            => /\ Len(basic_blocks[f].successors) = 2
               /\ basic_blocks[f].successors[1] = f + 2
               /\ \A b \in BreaksOf(f) :
                      basic_blocks[f].successors[2] \in Detour(b, f)

\* C4 (amended). FOR_ITER has two successors, the body entry and the loop's
\* POP_BLOCK; no BREAK_LOOP of the loop reaches that POP_BLOCK, and each one
\* reaches the offset after it, directly or through the END_FINALLY of the
\* handlers it is in, unless it is deferred and no END_FINALLY can be reached.
C4_BreakReachesLoopExit ==
    status = "done" =>
        \A f \in Processed :
            Instruction(f).opname = "FOR_ITER"
            => /\ basic_blocks[f].successors = <<f + 2, Instruction(f).argval>>
               /\ \A b \in BreaksOf(f) :
                      /\ Instruction(f).argval \notin Detour(b, f)
                      /\ \/ LoopExit(f) \in Detour(b, f)
                         \/ /\ LoopExit(f) \notin Successors(b)
                            /\ \A n \in Detour(b, f) : ~IsNode(n, "END_FINALLY")

\* a loop whose conditional break is deferred through a handler and then
\* reaches the offset after the loop's POP_BLOCK
C4_Witness ==
    /\ status = "done"
    /\ \E f \in Processed :
          /\ Instruction(f).opname = "FOR_ITER"
          /\ Instruction(Instruction(f).argval).opname = "POP_BLOCK"
          /\ \E b \in BreaksOf(f) : /\ ConditionalBreak(b)
                                    /\ LoopExit(f) \notin Successors(b)
                                    /\ LoopExit(f) \in Detour(b, f)

\* C5. A BREAK_LOOP whose top record is a loop has one successor, that
\* loop's exit offset, which lies after the POP_BLOCK whose only predecessor is
\* the FOR_ITER; and the exit of an enclosing loop that has no break of its
\* own is not reached from the break before the enclosing loop iterates.
C5_DirectBreak ==
    status = "done" =>
        \A b \in Processed :
            (/\ Instruction(b).opname = "BREAK_LOOP"
             /\ joined[b].view # None
             /\ blockstack[joined[b].view].creator = "SETUP_LOOP")
            => LET top == blockstack[joined[b].view]
                   chain == iter(blockstack, joined[b].view)
               IN  /\ basic_blocks[b].successors = <<top.next_offset>>
                   /\ \A f \in Processed :
                          (Instruction(f).opname = "FOR_ITER" /\ b \in BreaksOf(f))
                          => /\ Instruction(Instruction(f).argval).opname = "POP_BLOCK"
                             /\ top.next_offset = Instruction(f).argval + 2
                             /\ Predecessors(Instruction(f).argval) = {f}
                   /\ \A i \in 2..Len(chain), g \in Processed :
                          (/\ blockstack[chain[i]].creator = "SETUP_LOOP"
                           /\ Instruction(g).opname = "FOR_ITER"
                           /\ LoopExit(g) = blockstack[chain[i]].next_offset
                           /\ BreaksOf(g) = {})
                          => /\ LoopExit(g) # top.next_offset
                             /\ LoopExit(g) \notin Along({b}, {g})

\* a break directly in the inner of two nested loops, the outer without break
C5_Witness ==
    /\ status = "done"
    /\ \E b, f, g \in Processed :
          /\ Instruction(b).opname = "BREAK_LOOP"
          /\ joined[b].view # None
          /\ blockstack[joined[b].view].creator = "SETUP_LOOP"
          /\ Instruction(f).opname = "FOR_ITER" /\ b \in BreaksOf(f)
          /\ Instruction(g).opname = "FOR_ITER" /\ g < f /\ BreaksOf(g) = {}
          /\ \E i \in 2..Len(iter(blockstack, joined[b].view)) :
                blockstack[iter(blockstack, joined[b].view)[i]].next_offset = LoopExit(g)
          /\ LoopExit(g) \in DOMAIN basic_blocks

\* C6 (as claimed). A BREAK_LOOP that finds a finally, with or except record above a loop
\* record has the handler entry as its only successor, not the loop's exit;
\* it appends the nearest loop record to the broken loops of its path; and the
\* END_FINALLY closing that handler, when it is a node, has the loop's exit
\* offset among its successors.
C6_DeferredBreak ==
    \A b \in DeferredBreaks :
        LET top == blockstack[joined[b].view]
            loop == blockstack[LoopRecord(b)]
            broken == basic_blocks[b].path_metadata.broken_loops
        IN  /\ basic_blocks[b].successors = <<top.next_offset>>
            /\ basic_blocks[b].successors =
                   exceptional_jump_targets(blockstack, b, joined[b].view)
            /\ loop.next_offset \notin Successors(b)
            /\ broken = Append(joined[b].metadata.broken_loops, LoopRecord(b))
            /\ \A e \in HandlerEnd(top.next_offset, 0) \cap Processed :
                   loop.next_offset \in Successors(e)

\* the records of the view END_FINALLY node e was given that open a finally
\* or with scope
FinallyOnStack(e) ==
    LET chain == iter(blockstack, joined[e].view) IN
    {i \in 1..Len(chain) : blockstack[chain[i]].creator \in {"SETUP_FINALLY", "SETUP_WITH"}}

\* C7. An END_FINALLY node has -1 among its successors exactly when its
\* incoming path metadata has 'has return' set and the view it was given,
\* from which the scopes entered at or before it are popped, holds no
\* SETUP_FINALLY or SETUP_WITH record.
C7_EndFinallyExit ==
    \A e \in Processed :
        Instruction(e).opname = "END_FINALLY"
        => LET chain == iter(blockstack, joined[e].view) IN
           /\ \A i \in 1..Len(chain) : blockstack[chain[i]].next_offset > e
           /\ FUNCTION_EXIT \in Successors(e)
                  <=> (joined[e].metadata.has_return /\ FinallyOnStack(e) = {})

\* both sides of the equivalence: a deferred return that fires at an
\* END_FINALLY, and one held back by an enclosing finally or with scope
C7_Witness ==
    /\ status = "done"
    /\ \E e \in Processed : /\ Instruction(e).opname = "END_FINALLY"
                            /\ FUNCTION_EXIT \in Successors(e)
    /\ \E e \in Processed : /\ Instruction(e).opname = "END_FINALLY"
                            /\ joined[e].metadata.has_return
                            /\ FinallyOnStack(e) # {}
                            /\ FUNCTION_EXIT \notin Successors(e)

\* the record reached from block by following n parent links
RECURSIVE Walk(_, _, _)
Walk(blocks, block, n) ==
    IF n = 0 THEN block ELSE Walk(blocks, blocks[block].parent, n - 1)

\* C8. Persistence: push returns a view whose top is a new record holding the
\* given creator and exit offset, with the old view's top as parent; whatever
\* calls were made, every view obtained so far denotes the chain of records
\* it denoted when obtained; and the pool keeps its records, only adding.
C8_Persistence ==
    status = "workbench" =>
        /\ \A i \in 1..Len(views) : Denotes(blockstack, views[i]) = denoted[i]
        /\ last_call.op # "none"
              => /\ Len(last_call.pool) <= Len(blockstack)
                 /\ SubSeq(blockstack, 1, Len(last_call.pool)) = last_call.pool
        /\ last_call.op = "push"
              => /\ last_call.result \notin {None} \cup (1..Len(last_call.pool))
                 /\ blockstack[last_call.result] =
                        Block(last_call.creator, last_call.offset, last_call.on)
                 /\ Len(blockstack) = Len(last_call.pool) + 1

\* two views obtained by pushing on the same view: distinct tops, shared tail
C8_Witness ==
    /\ status = "workbench"
    /\ last_call.op = "push"
    /\ \E i, j \in 1..Len(views) :
          /\ views[i] # None /\ views[j] # None /\ views[i] # views[j]
          /\ blockstack[views[i]].parent = blockstack[views[j]].parent
          /\ blockstack[views[i]].parent # None

\* C9. pop on the empty view raises the empty-stack exception and otherwise
\* returns the view of the top record's parent; view[index] returns the record
\* index parent links below the top and raises IndexError exactly when the
\* view has fewer than index + 1 records; neither changes the view or the pool.
C9_PopAndPeek ==
    /\ last_call.op = "pop"
          => /\ last_call.on = None => last_call.raised = "EmptyBlockStackException"
             /\ last_call.on # None
                   => /\ last_call.raised = ""
                      /\ last_call.result = last_call.pool[last_call.on].parent
    /\ last_call.op = "getitem"
          => LET depth == Len(iter(last_call.pool, last_call.on)) IN
             /\ last_call.raised = "IndexError" <=> depth < last_call.index + 1
             /\ (last_call.index >= 0 /\ depth >= last_call.index + 1)
                   => /\ last_call.raised = ""
                      /\ last_call.result =
                             Walk(last_call.pool, last_call.on, last_call.index)
    /\ last_call.op \in {"pop", "getitem"}
          => /\ blockstack = last_call.pool
             /\ Denotes(blockstack, last_call.on) = Denotes(last_call.pool, last_call.on)

\* a view of one or two records asked for a record below its last
C9_Witness ==
    /\ last_call.op = "getitem"
    /\ last_call.on # None
    /\ last_call.raised = "IndexError"

\* C10. pop_until(offset) returns the view whose top is the first record from
\* the top with exit offset > offset, the empty view when there is none; it
\* raises nothing; and applied to its own result it returns that result.
C10_PopUntil ==
    last_call.op = "pop_until"
    => LET chain == iter(last_call.pool, last_call.on)
           kept == {i \in 1..Len(chain) :
                       last_call.pool[chain[i]].next_offset > last_call.offset}
       IN  /\ last_call.raised = ""
           /\ last_call.result = IF kept = {} THEN None ELSE chain[Least(kept)]
           /\ pop_until(blockstack, last_call.result, last_call.offset)
                  = last_call.result

\* a pop_until that discards some records and stops at one it keeps
C10_Witness ==
    /\ last_call.op = "pop_until"
    /\ last_call.result # None
    /\ last_call.result # last_call.on

\* the nodes of the graph that no node has as a successor
Entries == {o \in DOMAIN basic_blocks : Predecessors(o) = {}}

\* the nodes of the graph that have no successor
Exits == {o \in DOMAIN basic_blocks : basic_blocks[o].successors = <<>>}

\* C11 (as claimed). Single entry/exit: in a constructed graph the sentinel -1
\* is a node and the only node with an empty successor list, and no node other
\* than the one at offset 0 is without predecessor.  (Read with the least
\* demand on the code: offset 0 may have predecessors, and the sentinel of a
\* function that never returns is not counted.)
C11_SingleEntryExit ==
    status = "done" =>
        /\ FUNCTION_EXIT \in DOMAIN basic_blocks
        /\ Exits = {FUNCTION_EXIT}
        /\ Entries \subseteq {0, FUNCTION_EXIT}

\* the opcodes compute_jump_targets has a branch for
SupportedOps ==
    boring_opnames \cup UncondJumpOps \cup CondJumpOps \cup SetupOps
    \cup {"WITH_CLEANUP_START", "WITH_CLEANUP_FINISH", "POP_EXCEPT", "BREAK_LOOP",
          "POP_BLOCK", "CONTINUE_LOOP", "RETURN_VALUE", "END_FINALLY", "RAISE_VARARGS"}

\* the nodes written before o that have o as a successor
EarlierPredecessors(o) ==
    {p \in Processed : p < o /\ InSeq(o, basic_blocks[p].successors)}

\* the top records of the earlier predecessors' views after pop_until(o)
PoppedTops(o) ==
    {BlockValue(blockstack, pop_until(blockstack, basic_blocks[p].blockstack_view, o))
        : p \in EarlierPredecessors(o)}

\* C12. Malformed input is fatal: no node is ever written for an instruction
\* whose opcode is unsupported, for a BREAK_LOOP or CONTINUE_LOOP met with an
\* empty view, or for an instruction whose earlier predecessors disagree on
\* the top record; once construction has failed there is no successor list
\* for the offending instruction and construction is never completed.
C12_MalformedIsFatal ==
    /\ \A o \in Processed :
          /\ Instruction(o).opname \in SupportedOps
          /\ Instruction(o).opname \in {"BREAK_LOOP", "CONTINUE_LOOP"} => joined[o].view # None
          /\ Cardinality(PoppedTops(o)) <= 1
    /\ status = "error" =>
          /\ error # ""
          /\ code[pc].offset \notin Processed
          /\ basic_blocks[code[pc].offset].successors = <<>>
    /\ status = "done" => error = ""

\* construction failed at a join whose predecessors disagree
C12_Witness ==
    /\ status = "error"
    /\ error = "AssertionError"
    /\ Cardinality(PoppedTops(code[pc].offset)) > 1

OpenHandlers(chain, offset) ==
    {i \in 1..Len(chain) :
        /\ chain[i].record.creator \in {"SETUP_EXCEPT", "SETUP_FINALLY", "SETUP_WITH"}
        /\ chain[i].record.next_offset > offset}

\* C14. Exceptional-target resolution: for any offset and any view,
\* exceptional_jump_targets returns at most one offset: the exit offset of the
\* nearest record from the top that is an except, finally or with record
\* whose exit offset is greater than the given offset, and nothing when there
\* is no such record; it calls itself at most once per record of the view.
C14_ExceptionalTargets ==
    last_call.op = "exceptional_jump_targets" =>
        LET chain == Denotes(last_call.pool, last_call.on)
            open == OpenHandlers(chain, last_call.offset)
        IN  /\ Len(last_call.result) <= 1
            /\ last_call.result =
                   IF open = {} THEN <<>>
                   ELSE <<chain[Least(open)].record.next_offset>>
            /\ last_call.recursions <= Len(chain)

\* a call that skipped a record and found a handler below it
C14_Witness ==
    /\ last_call.op = "exceptional_jump_targets"
    /\ last_call.recursions >= 1
    /\ last_call.result # <<>>

\* the pairs <<s, e>> of a processed scope entry s (try or with) and the
\* processed END_FINALLY e that terminates its handler
HandlerScopes ==
    {<<s, e>> \in Processed \X Processed :
        /\ Instruction(s).opname \in exception_handling_ops
        /\ e \in HandlerEnd(Instruction(s).argval, 0)}

\* C15 (as claimed). For compiled (properly nested) code, the view recorded at an
\* END_FINALLY node holds no record equal to the one pushed by the scope entry
\* whose handler it terminates, and its top is the top of the view that scope
\* entry was given before it pushed.
C15_EndFinallyView ==
    code \in CompiledPrograms =>
        \A se \in HandlerScopes :
            LET s == se[1]
                e == se[2]
                pushed == BlockValue(blockstack, basic_blocks[s].blockstack_view)
                chain == iter(blockstack, basic_blocks[e].blockstack_view)
            IN  /\ \A i \in 1..Len(chain) : BlockValue(blockstack, chain[i]) # pushed
                /\ BlockValue(blockstack, basic_blocks[e].blockstack_view)
                       = BlockValue(blockstack, joined[s].view)

\* C16 (as claimed). For compiled (properly nested) code the assertion of the predecessor
\* join never fails: construction never ends in an AssertionError, and at
\* every processed node the predecessors processed before it have, after
\* pop_until(the node's offset), the same top record.
C16_JoinAgrees ==
    code \in CompiledPrograms =>
        /\ error # "AssertionError"
        /\ \A o \in Processed : Cardinality(PoppedTops(o)) <= 1

\* the elements of a list
Elements(list) == {list[i] : i \in 1..Len(list)}

\* C17. Path metadata join: the metadata a processed node was given has
\* 'has return' (likewise 'has except') set exactly when a node written before
\* it with this node among its successors has it set, and its broken loops
\* are exactly those of these predecessors; so along every edge p -> n with p
\* written before n, the flags and broken loops recorded at p are recorded at n.
C17_MetadataJoin ==
    \A n \in Processed :
        LET preds == EarlierPredecessors(n)
            given == joined[n].metadata
            kept == basic_blocks[n].path_metadata
        IN  /\ given.has_return <=> \E p \in preds : basic_blocks[p].path_metadata.has_return
            /\ given.has_except <=> \E p \in preds : basic_blocks[p].path_metadata.has_except
            /\ Elements(given.broken_loops)
                   = UNION {Elements(basic_blocks[p].path_metadata.broken_loops) : p \in preds}
            /\ \A p \in preds :
                  /\ basic_blocks[p].path_metadata.has_return => kept.has_return
                  /\ basic_blocks[p].path_metadata.has_except => kept.has_except
                  /\ Elements(basic_blocks[p].path_metadata.broken_loops)
                         \subseteq Elements(kept.broken_loops)

\* a node joined from a predecessor with 'has return' and one without it, and
\* a node that inherited a broken loop
C17_Witness ==
    /\ status = "done"
    /\ \E n \in Processed :
          /\ joined[n].metadata.has_return
          /\ \E p \in EarlierPredecessors(n) : ~basic_blocks[p].path_metadata.has_return
    /\ \E n \in Processed :
          /\ Instruction(n).opname # "BREAK_LOOP"
          /\ joined[n].metadata.broken_loops # <<>>

\* the processed scope entries: each has pushed the record on top of its view
ScopeEntries == {o \in Processed : Instruction(o).opname \in SetupOps}

\* the nodes other than o whose recorded view holds a record equal to the
\* one pushed at o
SeenBy(o) ==
    {n \in Processed \ {o} :
        \E b \in Elements(iter(blockstack, basic_blocks[n].blockstack_view)) :
            BlockValue(blockstack, b) = BlockValue(blockstack, basic_blocks[o].blockstack_view)}

\* C18. Handler-scope visibility: a record pushed while processing offset o
\* is on the chain of the view of another node n only if n is reached from o
\* along the edges of the graph.
C18_ScopeVisibility ==
    \A o \in ScopeEntries : SeenBy(o) \subseteq ReachableFrom(Successors(o))

\* a record seen by a node that is not a direct successor of the scope entry
C18_Witness ==
    /\ status = "done"
    /\ \E o \in ScopeEntries : \E n \in SeenBy(o) : n \notin Successors(o)

\* the edges p -> n of the graph that lead to a node written no later than p
BackEdges ==
    {pn \in Processed \X Processed : pn[1] >= pn[2] /\ pn[2] \in Successors(pn[1])}

\* a step writes at most one node, at an offset above every node written so
\* far, and leaves what was written for the other nodes as it is
WrittenOnce ==
    /\ \A o \in Processed :
          /\ o \in DOMAIN joined'
          /\ joined'[o] = joined[o]
          /\ basic_blocks'[o] = basic_blocks[o]
    /\ \A o \in DOMAIN joined' \ Processed :
          /\ DOMAIN joined' = Processed \cup {o}
          /\ \A q \in Processed : q < o
          /\ o = code[pc].offset

\* the view of the source of every back edge agrees with the view joined at
\* its target
BackEdgesAgree ==
    \A pn \in BackEdges :
        BlockValue(blockstack,
                   pop_until(blockstack, basic_blocks[pn[1]].blockstack_view, pn[2]))
            = BlockValue(blockstack, joined[pn[2]].view)

\* C19 (as claimed). Each node's successors, view and metadata are written
\* once, when its
\* instruction is visited, in ascending offset order; and for compiled
\* (properly nested) code every edge p -> n with p's offset >= n's offset has
\* p's view, after pop_until(n's offset), with the same top record as the
\* view that was joined at n.
C19_BackEdges ==
    /\ [][WrittenOnce]_vars
    /\ [](code \in CompiledPrograms => BackEdgesAgree)

\* the CONTINUE_LOOP nodes that were given a view with a record on it
Continues ==
    {c \in Processed : Instruction(c).opname = "CONTINUE_LOOP" /\ joined[c].view # None}

\* C20 (as claimed). Continue through a handler: a CONTINUE_LOOP whose
\* innermost record is a loop record has exactly one successor, its argument;
\* one that finds a finally or with record above a loop record has the
\* exceptional targets as its successors, and the END_FINALLY that terminates
\* that handler, when it is a node, has the continue's argument among its
\* successors.
C20_DeferredContinue ==
    \A c \in Continues :
        LET top == blockstack[joined[c].view] IN
        /\ top.creator = "SETUP_LOOP" =>
               basic_blocks[c].successors = <<Instruction(c).argval>>
        /\ (top.creator \in {"SETUP_FINALLY", "SETUP_WITH"} /\ LoopRecord(c) # None) =>
               /\ basic_blocks[c].successors =
                      exceptional_jump_targets(blockstack, c, joined[c].view)
               /\ \A e \in HandlerEnd(top.next_offset, 0) \cap Processed :
                      Instruction(c).argval \in Successors(e)
====
